---- MODULE Spec2Model ----
(***************************************************************************)
(* State-machine model of app.py, the Streamlit script of the crypto       *)
(* market analysis agent.  Streamlit runs the whole script top to bottom   *)
(* once per user interaction; one script run is                            *)
(*   environment setup (l.19-31), sidebar + task descriptions + agents,    *)
(*   tasks and crew (l.127-254), the "Generate Analysis" handler           *)
(*   (l.261-393) and the footer (l.395-399).                               *)
(* Strings built by f-strings are sequences of fragments: one fragment per *)
(* literal run and one per interpolated value.                             *)
(***************************************************************************)
EXTENDS Integers, Sequences, FiniteSets, TLC

VARIABLES
    env,            \* names of the environment variables that are set
    widgets,        \* sidebar widget values (l.130-134)
    button,         \* st.button("Generate Analysis") in this script run
    now,            \* the clock: days elapsed since FirstDay
    today_str,      \* l.137
    crew,           \* crypto_crew (l.250-254)
    prev_run,       \* <<>> or <<the previous script run's inputs and crew>>
    pc,             \* position of the script run
    uncaught,       \* the exception that ended the script run, if any
    page,           \* elements rendered by the current script run
    market_data,    \* l.263
    df,             \* l.269
    status,         \* pipeline run status
    accumulated_context,    \* pipeline run: (role, output) of each completed task
    executing,      \* pipeline run: positions of the tasks being executed
    exec_log,       \* pipeline run: names of the tasks started, in order
    prompt_ctx,     \* pipeline run: the context each started task was given
    ai_report,      \* l.280
    metrics,        \* total_market_cap, total_volume, avg_change (l.286-288)
    final_report,   \* l.296
    sentiment       \* sentiment_data, sentiment_report (l.358) and the response behind them

sessionVars == <<env, widgets, now>>
topVars == <<button, today_str, crew, prev_run>>
ctlVars == <<pc, uncaught, page>>
runVars == <<status, accumulated_context, executing, exec_log, prompt_ctx>>
handlerVars == <<market_data, df, ai_report, metrics, final_report, sentiment>>

vars == <<sessionVars, topVars, ctlVars, runVars, handlerVars>>

(* ------------------------------ bounds -------------------------------- *)
MaxDayOffset == 1

(* --------------------------- text helpers ----------------------------- *)
Digit == <<"0", "1", "2", "3", "4", "5", "6", "7", "8", "9">>

\* str(n) / f"{n}" for a non-negative int
RECURSIVE IntToStr(_)
IntToStr(n) ==
    IF n < 10 THEN Digit[n + 1]
    ELSE IntToStr(n \div 10) \o Digit[(n % 10) + 1]

\* whether fragment v occurs in the fragment sequence s
Contains(s, v) == \E i \in 1..Len(s) : s[i] = v

(* ------------------------------ the date ------------------------------ *)
FirstDay == [year |-> 2025, month |-> 1, day |-> 31]

MonthName == <<"January", "February", "March", "April", "May", "June", "July",
               "August", "September", "October", "November", "December">>

IsLeap(y) == (y % 4 = 0 /\ y % 100 # 0) \/ y % 400 = 0

DaysInMonth(y, m) ==
    IF m = 2 THEN (IF IsLeap(y) THEN 29 ELSE 28)
    ELSE IF m \in {4, 6, 9, 11} THEN 30 ELSE 31

NextDay(d) ==
    IF d.day < DaysInMonth(d.year, d.month) THEN [d EXCEPT !.day = d.day + 1]
    ELSE IF d.month < 12 THEN [d EXCEPT !.month = d.month + 1, !.day = 1]
    ELSE [year |-> d.year + 1, month |-> 1, day |-> 1]

RECURSIVE DateOf(_)
DateOf(k) == IF k = 0 THEN FirstDay ELSE NextDay(DateOf(k - 1))

\* datetime.strftime("%B %d, %Y")
strftime(d) ==
    MonthName[d.month] \o " "
        \o (IF d.day < 10 THEN "0" \o IntToStr(d.day) ELSE IntToStr(d.day))
        \o ", " \o IntToStr(d.year)

(* --------------------------- sidebar inputs --------------------------- *)
Timeframes == {"24H", "7D", "30D", "90D"}
TopNMin == 5
TopNMax == 20
TopNDefault == 10
\* the values of the slider, the update frequencies and the use cases the model
\* lets the user pick (the slider offers TopNMin..TopNMax, the two select boxes
\* also "5min", "In-depth Technical Analysis" and "Sentiment Focused")
TopNChoices == {TopNDefault, TopNMax}
UpdateFreqs == {"1min", "15min"}
UseCases == {"General Overview", "Custom"}
Notes == {"", "Focus on DeFi tokens"}

WidgetFields == {"timeframe", "top_n", "update_freq", "use_case", "additional_note"}

WidgetDomain(f) ==
    CASE f = "timeframe" -> Timeframes
      [] f = "top_n" -> TopNChoices
      [] f = "update_freq" -> UpdateFreqs
      [] f = "use_case" -> UseCases
      [] f = "additional_note" -> Notes

\* the values the widgets hold when the session opens
DefaultWidgets ==
    [timeframe |-> "24H", top_n |-> TopNDefault, update_freq |-> "1min",
     use_case |-> "General Overview", additional_note |-> ""]

(* ------------------------- task descriptions -------------------------- *)
\* w is the record of sidebar globals, today the global today_str
\* mutant: the description also follows the selected use case
market_analysis_description_by_use_case(today, w) ==
    << "**Report Date:** ", today, "\n",
       "1. Analyze current market conditions and trends over the past ", w.timeframe, ".\n",
       "2. Focus on the top ", IntToStr(w.top_n), " cryptocurrencies by market cap.\n",
       "3. Identify key market drivers, catalysts, and risks.\n",
       "4. Evaluate overall market sentiment and momentum.\n",
       "5. Generate price predictions and risk assessments.",
       "\nUse case: ", w.use_case >>

market_analysis_description(today, w) ==
    << "**Report Date:** ", today, "\n",
       "1. Analyze current market conditions and trends over the past ", w.timeframe, ".\n",
       "2. Focus on the top ", IntToStr(w.top_n), " cryptocurrencies by market cap.\n",
       "3. Identify key market drivers, catalysts, and risks.\n",
       "4. Evaluate overall market sentiment and momentum.\n",
       "5. Generate price predictions and risk assessments." >>

\* mutant: the timeframe is written into the text instead of interpolated
technical_analysis_description_fixed_timeframe(today, w) ==
    << "**Report Date:** ", today, "\n",
       "1. Perform technical analysis on the top ", IntToStr(w.top_n),
       " cryptocurrencies over the past ", "24H", ".\n",
       "2. Generate trading signals and identify chart patterns.\n",
       "3. Calculate key technical indicators (RSI, MACD, MA).\n",
       "4. Identify support and resistance levels.\n",
       "5. Provide probability-based trade recommendations." >>

technical_analysis_description(today, w) ==
    << "**Report Date:** ", today, "\n",
       "1. Perform technical analysis on the top ", IntToStr(w.top_n),
       " cryptocurrencies over the past ", w.timeframe, ".\n",
       "2. Generate trading signals and identify chart patterns.\n",
       "3. Calculate key technical indicators (RSI, MACD, MA).\n",
       "4. Identify support and resistance levels.\n",
       "5. Provide probability-based trade recommendations." >>

sentiment_task_description(today, w) ==
    << "**Report Date:** ", today, "\n",
       "1. Analyze the latest news and social media sentiment.\n",
       "2. Summarize market sentiment trends over the past ", w.timeframe, ".\n",
       "3. Identify the impact of recent events on market sentiment." >>

report_generation_description(today, w) ==
    << "**Report Date:** ", today, "\n",
       "1. Synthesize all previous analyses into a final, concise report.\n",
       "2. Create an executive summary with key findings and actionable recommendations.\n",
       "3. Highlight the most critical market insights from the data and analysis." >>
    \o (IF w.additional_note # "" THEN << "\nNote: ", w.additional_note >> ELSE << >>)

(* ------------------------------- agents ------------------------------- *)
market_researcher ==
    [role |-> "Senior Market Research Analyst",
     goal |-> "Analyze current market conditions, trends, and provide investment insights.",
     n_results |-> 5]

technical_analyst ==
    [role |-> "Technical Analysis Specialist",
     goal |-> "Perform technical analysis and generate trading signals.",
     n_results |-> 5]

news_analyst ==
    [role |-> "Crypto News & Sentiment Analyst",
     goal |-> "Monitor news, social media, and overall market sentiment.",
     n_results |-> 5]

report_writer ==
    [role |-> "Financial Report Writer",
     goal |-> "Create comprehensive investment reports with actionable insights.",
     n_results |-> 10]

(* -------------------------------- tasks ------------------------------- *)
market_analysis(today, w) ==
    [name |-> "market_analysis",
     description |-> market_analysis_description(today, w),
     expected_output |-> "A concise market analysis report summarizing current conditions, trends, price predictions, and risk factors.",
     agent |-> market_researcher]

technical_analysis(today, w) ==
    [name |-> "technical_analysis",
     description |-> technical_analysis_description(today, w),
     expected_output |-> "A concise technical analysis report with key trading signals, support/resistance levels, and indicator summaries.",
     agent |-> technical_analyst]

sentiment_task(today, w) ==
    [name |-> "sentiment_task",
     description |-> sentiment_task_description(today, w),
     expected_output |-> "A brief sentiment analysis summary including overall sentiment scores and key drivers.",
     agent |-> news_analyst]

report_generation(today, w) ==
    [name |-> "report_generation",
     description |-> report_generation_description(today, w),
     expected_output |-> "A final executive report that includes an overview of the current market, key technical insights, sentiment analysis, and recommendations for top long and short-term investment opportunities.",
     agent |-> report_writer]

\* mutant: the technical analysis is listed before the market analysis
crypto_crew_reordered(today, w) ==
    [agents |-> << market_researcher, technical_analyst, news_analyst, report_writer >>,
     tasks |-> << technical_analysis(today, w), market_analysis(today, w),
                  sentiment_task(today, w), report_generation(today, w) >>]

crypto_crew(today, w) ==
    [agents |-> << market_researcher, technical_analyst, news_analyst, report_writer >>,
     tasks |-> << market_analysis(today, w), technical_analysis(today, w),
                  sentiment_task(today, w), report_generation(today, w) >>]

\* crypto_crew before l.250 has run
NoCrew == [agents |-> << >>, tasks |-> << >>]

(* ------------------------ names and exceptions ------------------------ *)
RequiredEnv == {"COINMARKETCAP_API_KEY", "GEMINI_API_KEY", "MODEL"}

\* names bound in the module namespace once l.1-254 have run
ModuleGlobals ==
    {"os", "time", "datetime", "timedelta", "st", "pd", "requests", "px", "go",
     "load_dotenv", "Task", "Agent", "Crew", "LLM", "SerperDevTool",
     "COINMARKETCAP_API_KEY", "GEMINI_API_KEY", "MODEL", "llm",
     "fetch_market_data", "fetch_live_sentiment_data", "generate_sentiment_analysis",
     "timeframe", "top_n", "update_freq", "use_case", "additional_note", "today_str",
     "market_analysis_description", "technical_analysis_description",
     "sentiment_task_description", "report_generation_description",
     "market_researcher", "technical_analyst", "news_analyst", "report_writer",
     "market_analysis", "technical_analysis", "sentiment_task", "report_generation",
     "crypto_crew"}

NoException == [type |-> "", where |-> "", msg |-> ""]

\* one rendered element
El(kind, body) == [el |-> kind, body |-> body]

(* ------------------------------ numbers ------------------------------- *)
\* 1e9
Billion == 1000000000

\* a float is modelled by the exact quotient num / den, den > 0
Rat(n, d) == [num |-> n, den |-> d]

Abs(n) == IF n < 0 THEN -n ELSE n

\* |q| * 100 rounded to an integer, ties to even
Hundredths(q) ==
    LET n == Abs(q.num) * 100
        f == n \div q.den
        r == n % q.den
    IN  IF 2 * r > q.den THEN f + 1
        ELSE IF 2 * r = q.den THEN f + (f % 2)
        ELSE f

\* f"{q:.2f}"
Fmt2f(q) ==
    LET h == Hundredths(q)
    IN  (IF q.num < 0 THEN "-" ELSE "") \o IntToStr(h \div 100) \o "."
            \o Digit[((h \div 10) % 10) + 1] \o Digit[(h % 10) + 1]

(* ---------------------------- market data ----------------------------- *)
MaxCoins == 2

Coin(n, s, p, cap, vol, chg) ==
    [name |-> n, symbol |-> s,
     quote |-> [USD |-> [price |-> p, market_cap |-> cap, volume_24h |-> vol,
                         percent_change_24h |-> chg]]]

\* a listing sorted by market cap, descending (sort = market_cap, sort_dir = desc)
Listing ==
    << Coin("Bitcoin", "BTC", 40, 100, 30, 2),
       Coin("Ethereum", "ETH", 3, 50, 20, -4),
       Coin("Tether", "USDT", 1, 25, 70, 0),
       Coin("BNB", "BNB", 6, 12, 5, 7),
       Coin("Solana", "SOL", 2, 9, 8, -3) >>

Min(a, b) == IF a < b THEN a ELSE b

\* what requests.get(...) of the market listing can end in
MarketResponses ==
    {[ok |-> FALSE, has_data |-> FALSE, data |-> << >>],
     [ok |-> TRUE, has_data |-> FALSE, data |-> << >>]}
    \cup {[ok |-> TRUE, has_data |-> TRUE, data |-> SubSeq(Listing, 1, k)] :
             k \in 0..Min(MaxCoins, Len(Listing))}

\* the dict {}
EmptyMarketData == [has_data |-> FALSE, data |-> << >>]

\* l.52-58: the try statement of fetch_market_data
fetch_market_data_try(resp) ==
    IF resp.ok
    THEN [ret |-> [has_data |-> resp.has_data, data |-> resp.data], shown |-> {}]
    ELSE [ret |-> EmptyMarketData,
          shown |-> {El("error", << "Error fetching market data: ", "RequestException" >>)}]

\* mutant: only the presence of the "data" key is tested
HasMarketData_key_only(md) == md.has_data

\* market_data.get("data") is truthy
HasMarketData(md) == md.has_data /\ md.data # << >>

\* mutant: the market_cap column is filled from volume_24h
DataFrame_cap_from_volume(data) ==
    [i \in 1..Len(data) |->
        [name |-> data[i].name,
         symbol |-> data[i].symbol,
         price |-> data[i].quote.USD.price,
         market_cap |-> data[i].quote.USD.volume_24h,
         volume_24h |-> data[i].quote.USD.volume_24h,
         change_24h |-> data[i].quote.USD.percent_change_24h]]

\* l.269-276
DataFrame(data) ==
    [i \in 1..Len(data) |->
        [name |-> data[i].name,
         symbol |-> data[i].symbol,
         price |-> data[i].quote.USD.price,
         market_cap |-> data[i].quote.USD.market_cap,
         volume_24h |-> data[i].quote.USD.volume_24h,
         change_24h |-> data[i].quote.USD.percent_change_24h]]

\* df[col].sum()
RECURSIVE ColumnSum(_, _)
ColumnSum(rows, col) ==
    IF rows = << >> THEN 0 ELSE rows[1][col] + ColumnSum(Tail(rows), col)

\* df[col].mean()
ColumnMean(rows, col) == Rat(ColumnSum(rows, col), Len(rows))

total_market_cap(rows) == Rat(ColumnSum(rows, "market_cap"), Billion)
total_volume(rows) == Rat(ColumnSum(rows, "volume_24h"), Billion)
avg_change(rows) == ColumnMean(rows, "change_24h")

NoMetrics == [total_market_cap |-> Rat(0, 1), total_volume |-> Rat(0, 1), avg_change |-> Rat(0, 1)]

\* l.289-294
data_summary(today, m) ==
    << "**Market Summary (as of ", today, "):**\n\n",
       "- **Total Market Cap:** $", Fmt2f(m.total_market_cap), "B\n",
       "- **24h Volume:** $", Fmt2f(m.total_volume), "B\n",
       "- **Average 24h Change:** ", Fmt2f(m.avg_change), "%\n\n" >>

\* mutant: the line of the insights is no f-string, so the braces stay in the text
final_report_text_unformatted(today, m, report) ==
    << "### Executive Summary for ", today, "\n\n" >>
    \o data_summary(today, m)
    \o << "**Key AI Insights:**\n", "{ai_report}", "\n\n",
          "*Recommendation:* Monitor market drivers and adjust positions as needed for both long and short-term investments." >>

\* l.296-302
final_report_text(today, m, report) ==
    << "### Executive Summary for ", today, "\n\n" >>
    \o data_summary(today, m)
    \o << "**Key AI Insights:**\n", report, "\n\n",
          "*Recommendation:* Monitor market drivers and adjust positions as needed for both long and short-term investments." >>

\* df.head(n)
DfHead(rows, n) == SubSeq(rows, 1, Min(n, Len(rows)))

\* df.sort_values(by="market_cap", ascending=False)
RECURSIVE InsertByCap(_, _)
InsertByCap(r, sorted) ==
    IF sorted = << >> THEN << r >>
    ELSE IF r.market_cap > sorted[1].market_cap THEN << r >> \o sorted
    ELSE << sorted[1] >> \o InsertByCap(r, Tail(sorted))

RECURSIVE SortByCapDesc(_)
SortByCapDesc(rows) ==
    IF rows = << >> THEN << >>
    ELSE InsertByCap(rows[Len(rows)], SortByCapDesc(SubSeq(rows, 1, Len(rows) - 1)))

Column(rows, col) == [i \in 1..Len(rows) |-> rows[i][col]]

(* ----------------------------- sentiment ------------------------------ *)
\* the dict {}
EmptyDict == [k \in {} |-> ""]

\* d.get(k, default)
Get(d, k, default) == IF k \in DOMAIN d THEN d[k] ELSE default

SentimentRecords ==
    { [value |-> "25", value_classification |-> "Extreme Fear"],
      [value_classification |-> "Greed"],
      [value |-> "n/a", value_classification |-> "Unknown"],
      EmptyDict }

\* what requests.get(...) of the Fear & Greed index can end in
SentimentResponses ==
    {[ok |-> FALSE, has_data |-> FALSE, data |-> << >>],
     [ok |-> TRUE, has_data |-> FALSE, data |-> << >>],
     [ok |-> TRUE, has_data |-> TRUE, data |-> << >>]}
    \cup {[ok |-> TRUE, has_data |-> TRUE, data |-> << r >>] : r \in SentimentRecords}

\* l.60-78
fetch_live_sentiment_data(resp) ==
    IF ~resp.ok
    THEN [ret |-> EmptyDict,
          shown |-> {El("error", << "Error fetching live sentiment data: ", "RequestException" >>)}]
    ELSE IF resp.has_data /\ resp.data # << >>
    THEN [ret |-> resp.data[1], shown |-> {}]
    ELSE [ret |-> EmptyDict, shown |-> {}]

SentimentFallback == << "Live sentiment data is currently unavailable." >>

\* mutant: the report is formatted without testing sentiment_data
generate_sentiment_analysis_unguarded(resp) ==
    LET f == fetch_live_sentiment_data(resp)
        sentiment_data == f.ret
    IN  [sentiment_data |-> sentiment_data,
         sentiment_report |->
            << "The current Crypto Fear & Greed Index is **",
               Get(sentiment_data, "value", "N/A"), "** ",
               "(", Get(sentiment_data, "value_classification", "Unknown"), "). ",
               "This reflects the overall market sentiment as of now." >>,
         shown |-> f.shown]

\* l.80-96
generate_sentiment_analysis(resp) ==
    LET f == fetch_live_sentiment_data(resp)
        sentiment_data == f.ret
    IN  [sentiment_data |-> sentiment_data,
         sentiment_report |->
            IF sentiment_data # EmptyDict
            THEN << "The current Crypto Fear & Greed Index is **",
                    Get(sentiment_data, "value", "N/A"), "** ",
                    "(", Get(sentiment_data, "value_classification", "Unknown"), "). ",
                    "This reflects the overall market sentiment as of now." >>
            ELSE SentimentFallback,
         shown |-> f.shown]

\* float(s) succeeds for the index values "0".."100"
ParsesAsFloat(s) == \E n \in 0..100 : s = IntToStr(n)

\* l.359-380: the gauge, or the error shown when it cannot be drawn
Gauge(sentiment_data) ==
    IF sentiment_data = EmptyDict THEN {}
    ELSE IF "value" \notin DOMAIN sentiment_data THEN {El("gauge", << "0" >>)}
    ELSE IF ParsesAsFloat(sentiment_data["value"])
    THEN {El("gauge", << sentiment_data["value"] >>)}
    ELSE {El("error", << "Error displaying gauge chart: ", "ValueError" >>)}

NoResponse == [ok |-> FALSE, has_data |-> FALSE, data |-> << >>]

NoSentiment == [response |-> NoResponse, sentiment_data |-> EmptyDict, sentiment_report |-> << >>]

(* --------------------------- pipeline texts --------------------------- *)
MaxTexts == 2

\* the texts a language-model call can return
LLMText(v) == "generated text " \o IntToStr(v)

\* the result of a run whose tasks all completed: the output of the last task
PipelineResult(ctx) == ctx[Len(ctx)][2]

(* ------------------------------- Init --------------------------------- *)
\* the script's variables before the script run has assigned them
FreshRun ==
    /\ today_str' = ""
    /\ crew' = NoCrew
    /\ pc' = "start"
    /\ uncaught' = NoException
    /\ page' = {}
    /\ market_data' = EmptyMarketData
    /\ df' = << >>
    /\ status' = "pending"
    /\ accumulated_context' = << >>
    /\ executing' = {}
    /\ exec_log' = << >>
    /\ prompt_ctx' = << >>
    /\ ai_report' = ""
    /\ metrics' = NoMetrics
    /\ final_report' = << >>
    /\ sentiment' = NoSentiment

Init ==
    /\ env \in {RequiredEnv} \cup {RequiredEnv \ {v} : v \in RequiredEnv}
    /\ widgets = DefaultWidgets
    /\ button = FALSE
    /\ now = 0
    /\ today_str = ""
    /\ crew = NoCrew
    /\ prev_run = << >>
    /\ pc = "start"
    /\ uncaught = NoException
    /\ page = {}
    /\ market_data = EmptyMarketData
    /\ df = << >>
    /\ status = "pending"
    /\ accumulated_context = << >>
    /\ executing = {}
    /\ exec_log = << >>
    /\ prompt_ctx = << >>
    /\ ai_report = ""
    /\ metrics = NoMetrics
    /\ final_report = << >>
    /\ sentiment = NoSentiment

Rendered(kind) == \E e \in page : e.el = kind

(* ------------------------- user interactions -------------------------- *)
\* the inputs and the crew of the script run that just ended
Snapshot ==
    IF crew = NoCrew THEN << >>
    ELSE << [widgets |-> widgets, today_str |-> today_str, crew |-> crew] >>

\* the user changes one sidebar widget: Streamlit reruns the script
ChangeWidget ==
    /\ pc = "idle"
    /\ Rendered("sidebar")
    /\ \E f \in WidgetFields : \E v \in WidgetDomain(f) \ {widgets[f]} :
           widgets' = [widgets EXCEPT ![f] = v]
    /\ button' = FALSE
    /\ prev_run' = Snapshot
    /\ FreshRun
    /\ UNCHANGED <<env, now>>

\* the user clicks "Generate Analysis": Streamlit reruns the script
ClickButton ==
    /\ pc = "idle"
    /\ Rendered("button")
    /\ button' = TRUE
    /\ prev_run' = Snapshot
    /\ FreshRun
    /\ UNCHANGED <<env, widgets, now>>

(* --------------------------- the script run --------------------------- *)
\* l.19-31
EnvironmentSetup ==
    /\ pc = "start"
    /\ IF RequiredEnv \subseteq env
       THEN /\ pc' = "build"
            /\ UNCHANGED <<uncaught, page>>
       ELSE /\ pc' = "idle"
            /\ uncaught' = [type |-> "ValueError", where |-> "module",
                            msg |-> "Missing environment variable"]
            /\ page' = page \cup {El("exception", << "ValueError" >>)}
    /\ UNCHANGED <<sessionVars, topVars, runVars, handlerVars>>

\* l.127-254: sidebar, today_str, descriptions, agents, tasks, crew
BuildCrew ==
    /\ pc = "build"
    /\ \E d \in now..MaxDayOffset :
          /\ now' = d
          /\ today_str' = strftime(DateOf(d))
          /\ crew' = crypto_crew(strftime(DateOf(d)), widgets)
    /\ page' = page \cup {El("sidebar", << >>)}
    /\ pc' = "button"
    /\ UNCHANGED <<env, widgets, button, prev_run, uncaught, runVars, handlerVars>>

\* l.259-262 and l.392-393: the title, the button and the branch on it
GenerateAnalysisButton ==
    /\ pc = "button"
    /\ IF button
       THEN /\ page' = page \cup {El("title", << >>), El("button", << >>)}
            /\ pc' = "fetch"
       ELSE /\ page' = page \cup
                {El("title", << >>), El("button", << >>),
                 El("info", << "Click 'Generate Analysis' to generate today's AI-powered market analysis." >>)}
            /\ pc' = "footer"
    /\ prev_run' = << >>
    /\ UNCHANGED <<sessionVars, button, today_str, crew, uncaught, runVars, handlerVars>>

\* l.263 with l.36-58: the call of fetch_market_data
CallFetchMarketData ==
    /\ pc = "fetch"
    /\ IF "COINMARKETCAP_API" \in ModuleGlobals
       THEN \E resp \in MarketResponses :
               LET f == fetch_market_data_try(resp)
               IN  /\ market_data' = f.ret
                   /\ page' = page \cup f.shown
                   /\ pc' = "check_data"
                   /\ UNCHANGED uncaught
       ELSE /\ uncaught' = [type |-> "NameError", where |-> "fetch_market_data",
                            msg |-> "name 'COINMARKETCAP_API' is not defined"]
            /\ page' = page \cup {El("exception", << "NameError" >>)}
            /\ pc' = "idle"
            /\ UNCHANGED market_data
    /\ UNCHANGED <<sessionVars, topVars, runVars, df, ai_report, metrics, final_report, sentiment>>

\* l.263 with l.52-58: fetch_market_data entered at its try statement
CallFetchFromTry ==
    /\ pc = "fetch"
    /\ \E resp \in MarketResponses :
          LET f == fetch_market_data_try(resp)
          IN  /\ market_data' = f.ret
              /\ page' = page \cup f.shown
    /\ pc' = "check_data"
    /\ UNCHANGED <<sessionVars, topVars, uncaught, runVars, df, ai_report, metrics,
                   final_report, sentiment>>

\* l.264-276: the guard on the market data, then the DataFrame
CheckMarketData ==
    /\ pc = "check_data"
    /\ IF ~HasMarketData(market_data)
       THEN /\ page' = page \cup {El("error", << "No market data returned from API." >>)}
            /\ pc' = "idle"
            /\ UNCHANGED df
       ELSE /\ df' = DataFrame(market_data.data)
            /\ pc' = "kickoff"
            /\ UNCHANGED page
    /\ UNCHANGED <<sessionVars, topVars, uncaught, runVars, market_data, ai_report,
                   metrics, final_report, sentiment>>

(* ------------------------- the pipeline run --------------------------- *)
\* l.280: crypto_crew.kickoff() is entered
KickoffCall ==
    /\ pc = "kickoff"
    /\ status = "pending"
    /\ status' = "running"
    /\ accumulated_context' = << >>
    /\ pc' = "pipeline"
    /\ UNCHANGED <<sessionVars, topVars, uncaught, page, executing, exec_log, prompt_ctx,
                   handlerVars>>

\* mutant: the task is handed only the output of the task just before it
StartTask_last_output_only ==
    /\ pc = "pipeline"
    /\ status = "running"
    /\ executing = {}
    /\ Len(accumulated_context) < Len(crew.tasks)
    /\ LET i == Len(accumulated_context) + 1
       IN  /\ executing' = {i}
           /\ exec_log' = Append(exec_log, crew.tasks[i].name)
           /\ prompt_ctx' = Append(prompt_ctx,
                                   IF i > 1 THEN << accumulated_context[i - 1] >> ELSE << >>)
    /\ UNCHANGED <<sessionVars, topVars, ctlVars, status, accumulated_context, handlerVars>>

\* the next task in declared order is handed the accumulated context
StartTask ==
    /\ pc = "pipeline"
    /\ status = "running"
    /\ executing = {}
    /\ Len(accumulated_context) < Len(crew.tasks)
    /\ LET i == Len(accumulated_context) + 1
       IN  /\ executing' = {i}
           /\ exec_log' = Append(exec_log, crew.tasks[i].name)
           /\ prompt_ctx' = Append(prompt_ctx, accumulated_context)
    /\ UNCHANGED <<sessionVars, topVars, ctlVars, status, accumulated_context, handlerVars>>

\* the language-model call of the executing task returns a text
TaskSucceeds ==
    /\ pc = "pipeline"
    /\ \E i \in executing : \E v \in 1..MaxTexts :
          accumulated_context' =
              Append(accumulated_context, << crew.tasks[i].agent.role, LLMText(v) >>)
    /\ executing' = {}
    /\ UNCHANGED <<sessionVars, topVars, ctlVars, status, exec_log, prompt_ctx, handlerVars>>

\* the language-model call of the executing task fails: GenerationFailed
TaskFails ==
    /\ pc = "pipeline"
    /\ executing # {}
    /\ executing' = {}
    /\ status' = "failed"
    /\ pc' = "kickoff_raised"
    /\ UNCHANGED <<sessionVars, topVars, uncaught, page, accumulated_context, exec_log,
                   prompt_ctx, handlerVars>>

\* every task completed
PipelineCompletes ==
    /\ pc = "pipeline"
    /\ status = "running"
    /\ executing = {}
    /\ Len(accumulated_context) = Len(crew.tasks)
    /\ status' = "completed"
    /\ pc' = "kickoff_returned"
    /\ UNCHANGED <<sessionVars, topVars, uncaught, page, accumulated_context, executing,
                   exec_log, prompt_ctx, handlerVars>>

(* ---------------------- the rest of the handler ----------------------- *)
\* l.280: ai_report = the value kickoff() returned
AssignAiReport ==
    /\ pc = "kickoff_returned"
    /\ ai_report' = PipelineResult(accumulated_context)
    /\ pc' = "report"
    /\ UNCHANGED <<sessionVars, topVars, uncaught, page, runVars, market_data, df, metrics,
                   final_report, sentiment>>

\* mutant: the error is shown but st.stop() is missing
KickoffExcept_no_stop ==
    /\ pc = "kickoff_raised"
    /\ page' = page \cup {El("error", << "Error during AI analysis: ", "GenerationFailed" >>)}
    /\ pc' = "report"
    /\ UNCHANGED <<sessionVars, topVars, uncaught, runVars, handlerVars>>

\* l.281-283
KickoffExcept ==
    /\ pc = "kickoff_raised"
    /\ page' = page \cup {El("error", << "Error during AI analysis: ", "GenerationFailed" >>)}
    /\ pc' = "idle"
    /\ UNCHANGED <<sessionVars, topVars, uncaught, runVars, handlerVars>>

\* l.286-302
ComputeReport ==
    /\ pc = "report"
    /\ LET m == [total_market_cap |-> total_market_cap(df),
                 total_volume |-> total_volume(df),
                 avg_change |-> avg_change(df)]
       IN  /\ metrics' = m
           /\ final_report' = final_report_text(today_str, m, ai_report)
    /\ pc' = "tabs"
    /\ UNCHANGED <<sessionVars, topVars, uncaught, page, runVars, market_data, df, ai_report,
                   sentiment>>

\* l.307-354: the tab bar, tab1 and tab2
RenderOverviewTabs ==
    /\ pc = "tabs"
    /\ page' = page \cup
          {El("tabs", << "Market Overview", "Technical Analysis", "Sentiment",
                         "Detailed Data", "Final Report" >>),
           El("metric", << "Total Market Cap", "$", Fmt2f(metrics.total_market_cap), "B" >>),
           El("metric", << "24h Volume", "$", Fmt2f(metrics.total_volume), "B" >>),
           El("metric", << "Avg 24h Change", Fmt2f(metrics.avg_change), "%" >>),
           El("treemap", Column(df, "name")),
           El("price_chart", Column(DfHead(df, widgets.top_n), "symbol"))}
    /\ pc' = "tab3"
    /\ UNCHANGED <<sessionVars, topVars, uncaught, runVars, handlerVars>>

\* l.356-382: tab3
RenderSentimentTab ==
    /\ pc = "tab3"
    /\ \E resp \in SentimentResponses :
          LET g == generate_sentiment_analysis(resp)
          IN  /\ sentiment' = [response |-> resp,
                               sentiment_data |-> g.sentiment_data,
                               sentiment_report |-> g.sentiment_report]
              /\ page' = page \cup g.shown \cup Gauge(g.sentiment_data)
                              \cup {El("sentiment_report", g.sentiment_report)}
    /\ pc' = "tab4"
    /\ UNCHANGED <<sessionVars, topVars, uncaught, runVars, market_data, df, ai_report,
                   metrics, final_report>>

\* l.384-391: tab4 and tab5
RenderDataAndReportTabs ==
    /\ pc = "tab4"
    /\ page' = page \cup {El("dataframe", Column(SortByCapDesc(df), "name")),
                          El("final_report", final_report)}
    /\ pc' = "footer"
    /\ UNCHANGED <<sessionVars, topVars, uncaught, runVars, handlerVars>>

\* l.395-399
Footer ==
    /\ pc = "footer"
    /\ page' = page \cup {El("footer", << >>)}
    /\ pc' = "idle"
    /\ UNCHANGED <<sessionVars, topVars, uncaught, runVars, handlerVars>>

(* ------------------------------- claims ------------------------------- *)
\* crypto_crew has been constructed in this script run
Built == crew # NoCrew

\* the step is a rerun of the script
Rerun == pc = "idle" /\ pc' = "start"

Description(i) == crew.tasks[i].description

\* the current date as l.137 formats it
CurrentDate == strftime(DateOf(now))

\* C1 as stated: constructing the task sequence yields exactly 4 Tasks and the
\* description of each of them contains the current date, the timeframe and the
\* coin count.
C1_EveryDescriptionHasAllThree ==
    Built =>
        /\ Len(crew.tasks) = 4
        /\ \A i \in 1..Len(crew.tasks) :
              /\ Contains(Description(i), CurrentDate)
              /\ Contains(Description(i), widgets.timeframe)
              /\ Contains(Description(i), IntToStr(widgets.top_n))

\* C1 amended: exactly 4 Tasks; every description contains the current date; the
\* market-analysis and technical-analysis descriptions contain the timeframe and the
\* coin count; the sentiment description contains the timeframe and is the same for
\* every coin count; the report-generation description is the same for every
\* timeframe and coin count.
C1_DescriptionsCarryTheirParameters ==
    Built =>
        /\ Len(crew.tasks) = 4
        /\ \A i \in 1..4 : Contains(Description(i), CurrentDate)
        /\ \A i \in {1, 2} :
              /\ Contains(Description(i), widgets.timeframe)
              /\ Contains(Description(i), IntToStr(widgets.top_n))
        /\ Contains(Description(3), widgets.timeframe)
        /\ (prev_run # << >> /\ prev_run[1].today_str = today_str) =>
              LET p == prev_run[1]
              IN  /\ p.widgets.timeframe = widgets.timeframe
                        => p.crew.tasks[3].description = Description(3)
                  /\ p.widgets.additional_note = widgets.additional_note
                        => p.crew.tasks[4].description = Description(4)

C1_Witness ==
    /\ Built
    /\ widgets.timeframe = "90D"
    /\ widgets.top_n = TopNMax
    /\ widgets.additional_note # ""
    /\ now > 0
    /\ prev_run # << >>
    /\ prev_run[1].today_str = today_str
    /\ prev_run[1].widgets.top_n # widgets.top_n

\* C9 as stated: no exception escapes fetch_market_data (it returns a dict), so a
\* click of Generate Analysis gets past the fetch.
C9_FetchNeverRaises == uncaught.where # "fetch_market_data"

\* two widget records agree on every field outside `free`
AgreeOutside(w1, w2, free) == \A f \in WidgetFields \ free : w1[f] = w2[f]

\* a task with its description left out
Undescribed(t) == [name |-> t.name, expected_output |-> t.expected_output, agent |-> t.agent]

\* C10: two script runs on the same date that differ only in update frequency and/or
\* use case build the same crew; two that differ also in the note build the same first
\* three tasks and the same fourth task up to its description; an empty note adds
\* nothing to the fourth description and a non-empty one is appended to it.
C10_CadenceAndFocusAreIgnored ==
    (pc = "button" /\ prev_run # << >>) =>
        LET p == prev_run[1]
        IN  /\ (p.today_str = today_str
                   /\ AgreeOutside(p.widgets, widgets, {"update_freq", "use_case"}))
                => p.crew = crew
            /\ (p.today_str = today_str
                   /\ AgreeOutside(p.widgets, widgets,
                                   {"update_freq", "use_case", "additional_note"}))
                => /\ SubSeq(p.crew.tasks, 1, 3) = SubSeq(crew.tasks, 1, 3)
                   /\ Undescribed(p.crew.tasks[4]) = Undescribed(crew.tasks[4])
            /\ widgets.additional_note = ""
                => ~Contains(Description(4), "\nNote: ")
            /\ widgets.additional_note # ""
                => Description(4)[Len(Description(4))] = widgets.additional_note

C10_Witness ==
    /\ pc = "button"
    /\ prev_run # << >>
    /\ prev_run[1].today_str = today_str
    /\ prev_run[1].widgets.use_case # widgets.use_case
    /\ prev_run[1].crew = crew

\* the kinds of element the handler renders as its result
ResultKinds ==
    {"tabs", "metric", "treemap", "price_chart", "gauge", "sentiment_report",
     "dataframe", "final_report"}

\* the handler has called fetch_market_data in this script run
Fetched == button /\ pc \notin {"start", "build", "button", "fetch"}

\* the dict fetch_market_data returned holds no coin record
NoUsableData(md) == ~md.has_data \/ Len(md.data) = 0

MissingSentiment(resp) == ~resp.ok \/ ~resp.has_data \/ Len(resp.data) = 0

\* C6: when the sentiment fetch fails or returns no record, the sentiment report is
\* the fixed fallback text, no gauge is drawn, no exception ends the script run, and
\* the remaining tabs, the final report among them, are rendered.
C6_MissingSentimentFallsBack ==
    (Rendered("sentiment_report") /\ MissingSentiment(sentiment.response)) =>
        /\ sentiment.sentiment_report = << "Live sentiment data is currently unavailable." >>
        /\ El("sentiment_report", << "Live sentiment data is currently unavailable." >>) \in page
        /\ ~Rendered("gauge")
        /\ uncaught = NoException
        /\ pc \in {"tab4", "footer", "idle"}
        /\ pc \in {"footer", "idle"} =>
              /\ Rendered("dataframe")
              /\ final_report # << >>
              /\ El("final_report", final_report) \in page
        /\ pc = "idle" => Rendered("footer")

C6_Witness ==
    /\ pc = "idle"
    /\ Rendered("sentiment_report")
    /\ ~sentiment.response.ok
    /\ sentiment.sentiment_data = EmptyDict
    /\ ~Rendered("gauge")
    /\ El("final_report", final_report) \in page

\* the sum of one quote.USD field over the coin records of the response
RECURSIVE QuoteSum(_, _)
QuoteSum(coins, field) ==
    IF coins = << >> THEN 0
    ELSE coins[1].quote.USD[field] + QuoteSum(Tail(coins), field)

\* the number q is the integer n
IsNumber(q, n) == q.num % q.den = 0 /\ q.num \div q.den = n

\* l.286-288 have run in this script run
MetricsComputed == final_report # << >>

C3_State ==
    status = "failed" =>
        /\ executing = {}
        /\ Len(exec_log) = Len(accumulated_context) + 1
        /\ ai_report = ""
        /\ final_report = << >>
        /\ \A e \in page : e.el \notin ResultKinds
        /\ pc \in {"kickoff_raised", "idle"}
        /\ pc = "idle" =>
              /\ El("error", << "Error during AI analysis: ", "GenerationFailed" >>) \in page
              /\ ~Rendered("footer")

\* C3: once a task has failed the run is failed and stays failed, no later task is
\* started, no result is produced, and the handler shows the error and stops without
\* rendering a report.
C3_FailureAbortsTheRun ==
    /\ []C3_State
    /\ [][(status = "failed" /\ ~Rerun) => (status' = "failed" /\ exec_log' = exec_log)]_vars

C3_Witness ==
    /\ status = "failed"
    /\ pc = "idle"
    /\ Len(exec_log) = 2
    /\ Len(accumulated_context) = 1
    /\ El("error", << "Error during AI analysis: ", "GenerationFailed" >>) \in page

\* what C4 says of every state
C4_State ==
    /\ (Built /\ pc # "pipeline" /\ Len(accumulated_context) = Len(crew.tasks))
          => status = "completed"
    /\ (status = "completed" /\ pc # "kickoff_returned") =>
          /\ accumulated_context[Len(accumulated_context)][1] = report_writer.role
          /\ ai_report = accumulated_context[Len(accumulated_context)][2]
    /\ final_report # << >> =>
          /\ status = "completed"
          /\ Contains(final_report, accumulated_context[Len(accumulated_context)][2])
    /\ \A e \in page : e.el = "final_report" => e.body = final_report

\* C4: when every task has completed the run is completed and its result, the output
\* of the last task, is the text placed in the final report; completed and failed are
\* terminal, and completed is entered from running only.
C4_CompletedRunYieldsFinalOutput ==
    /\ []C4_State
    /\ [][/\ (status' = "completed" /\ status # "completed") => status = "running"
          /\ (status \in {"completed", "failed"} /\ ~Rerun) => status' = status]_vars

C4_Witness ==
    /\ pc = "idle"
    /\ status = "completed"
    /\ El("final_report", final_report) \in page
    /\ Contains(final_report, ai_report)
    /\ accumulated_context[4][2] # accumulated_context[3][2]
    /\ ai_report = accumulated_context[4][2]

IsPrefix(s, t) == Len(s) <= Len(t) /\ SubSeq(t, 1, Len(s)) = s

\* the tasks of the run that were started and returned a text
CompletedTasks ==
    Len(exec_log) - Cardinality(executing) - (IF status = "failed" THEN 1 ELSE 0)

\* what C2 says of every state
C2_State ==
    /\ Len(accumulated_context) <= CompletedTasks
    /\ \A i \in 1..Len(prompt_ctx) :
          /\ i <= Len(accumulated_context) + 1
          /\ prompt_ctx[i] = SubSeq(accumulated_context, 1, i - 1)
    /\ \A i \in 1..Len(accumulated_context) :
          accumulated_context[i][1] = crew.tasks[i].agent.role
    /\ status = "completed" => Len(accumulated_context) = Len(crew.tasks)

\* C2: accumulated_context only grows by appending and is never longer than the number
\* of completed tasks; the task at position i was given exactly the outputs of the
\* tasks before it, in order; after a successful run it holds one entry per task.
C2_ContextIsThePrefixOfEarlierOutputs ==
    /\ []C2_State
    /\ [][~Rerun => IsPrefix(accumulated_context, accumulated_context')]_vars

C2_Witness ==
    /\ status = "completed"
    /\ Len(accumulated_context) = 4
    /\ Len(prompt_ctx) = 4
    /\ Len(prompt_ctx[4]) = 3
    /\ prompt_ctx[1] = << >>

DeclaredOrder == << "market_analysis", "technical_analysis", "sentiment_task", "report_generation" >>

\* what C8 says of every state
C8_State ==
    /\ IsPrefix(exec_log, DeclaredOrder)
    /\ Cardinality(executing) <= 1
    /\ \A i \in executing : i = Len(exec_log) /\ Len(accumulated_context) = i - 1
    /\ Len(exec_log) <= Len(accumulated_context) + 1
    /\ status = "failed" => executing = {}

\* C8: the tasks are started in declared order, at most one is executing, a task
\* starts only when every earlier one has completed, and none is started twice or
\* after a failure.
C8_TasksRunOnceInDeclaredOrder ==
    /\ []C8_State
    /\ [][~Rerun => /\ IsPrefix(exec_log, exec_log')
                    /\ Len(exec_log') <= Len(exec_log) + 1
                    /\ status = "failed" => exec_log' = exec_log]_vars

C8_Witness ==
    /\ status = "completed"
    /\ exec_log = DeclaredOrder
    /\ executing = {}

(* --------------------------- specifications --------------------------- *)
\* The script as written.  CallFetchMarketData ends every script run that reaches it
\* with a NameError (l.51 reads COINMARKETCAP_API, a name the module never binds), so
\* no behaviour of Spec enters the handler behind the call.
Next ==
    \/ ChangeWidget
    \/ ClickButton
    \/ EnvironmentSetup
    \/ BuildCrew
    \/ GenerateAnalysisButton
    \/ CallFetchMarketData
    \/ Footer

Spec == Init /\ [][Next]_vars

\* the handler behind the call of fetch_market_data (l.264-391)
Handler ==
    \/ CheckMarketData
    \/ KickoffCall
    \/ StartTask
    \/ TaskSucceeds
    \/ TaskFails
    \/ PipelineCompletes
    \/ AssignAiReport
    \/ KickoffExcept
    \/ ComputeReport
    \/ RenderOverviewTabs
    \/ RenderSentimentTab
    \/ RenderDataAndReportTabs

\* The script with fetch_market_data entered at its try statement (l.52): the code
\* behind the call, which Spec never reaches, run on every value the function's two
\* return statements can yield.
NextFromTry ==
    \/ ChangeWidget
    \/ ClickButton
    \/ EnvironmentSetup
    \/ BuildCrew
    \/ GenerateAnalysisButton
    \/ CallFetchFromTry
    \/ Handler
    \/ Footer

SpecFromTry == Init /\ [][NextFromTry]_vars

\* the script as written together with the handler: its behaviours are those of Spec
NextAll == Next \/ Handler

SpecAll == Init /\ [][NextAll]_vars

====
